---- MODULE Spec2Model ----
(***************************************************************************)
(* argon2.PasswordHasher (src/src/argon2/_password_hasher.py) as a state   *)
(* machine: construction, from_parameters, hash, verify and                *)
(* check_needs_rehash over a small pool of hashers.  The default           *)
(* parallelism computed at import is state; what the runtime probe         *)
(* is_wasm() answers is an input of each construction.                     *)
(*                                                                         *)
(* Text and bytes are sequences of integers: a str is its code points, a   *)
(* bytes object its byte values, so that encoding and decoding are real    *)
(* conversions and the encoded hash is the ASCII text the codec defines.   *)
(***************************************************************************)
EXTENDS Integers, Sequences, FiniteSets, TLC

\* ---------------------------------------------------------------- text

\* ASCII codes of the characters the encoded-hash format uses.
Ord ==
    ("$" :> 36) @@ ("," :> 44) @@ ("=" :> 61) @@ ("2" :> 50) @@
    ("a" :> 97) @@ ("b" :> 98) @@ ("c" :> 99) @@ ("d" :> 100) @@
    ("g" :> 103) @@ ("i" :> 105) @@ ("m" :> 109) @@ ("n" :> 110) @@
    ("o" :> 111) @@ ("p" :> 112) @@ ("r" :> 114) @@ ("t" :> 116) @@
    ("v" :> 118) @@ ("y" :> 121) @@ ("X" :> 88) @@ ("1" :> 49) @@
    ("9" :> 57)

\* The code points (or byte values) of a tuple of one-character strings.
Asc(s) == [i \in 1..Len(s) |-> Ord[s[i]]]

\* A Python object that is either bytes or str.
Bytes(data) == [kind |-> "bytes", data |-> data]
Str(data) == [kind |-> "str", data |-> data]

Raise(name) == [exc |-> name, val |-> <<>>]
Ok(v) == [exc |-> "", val |-> v]

RECURSIVE Concat(_)
Concat(ss) == IF ss = <<>> THEN <<>> ELSE Head(ss) \o Concat(Tail(ss))

\* str.encode(encoding) for one code point.
EncodeCodePoint(cp, encoding) ==
    CASE encoding = "ascii" -> IF cp < 128 THEN Ok(<<cp>>) ELSE Raise("UnicodeEncodeError")
      [] encoding = "latin-1" -> IF cp < 256 THEN Ok(<<cp>>) ELSE Raise("UnicodeEncodeError")
      [] encoding = "utf-8" ->
            IF cp < 128 THEN Ok(<<cp>>)
            ELSE IF cp < 2048 THEN Ok(<<192 + (cp \div 64), 128 + (cp % 64)>>)
            ELSE Raise("UnicodeEncodeError")
      [] OTHER -> Raise("LookupError")

\* str.encode(encoding): the bytes, or the encoder's error. The three codecs
\* agree on ASCII text.
StrEncode(cps, encoding) ==
    IF encoding \notin {"ascii", "latin-1", "utf-8"} THEN Raise("LookupError")
    ELSE IF \A i \in 1..Len(cps) : cps[i] < 128 THEN Ok(cps)
    ELSE LET each == [i \in 1..Len(cps) |-> EncodeCodePoint(cps[i], encoding)]
             bad == {i \in 1..Len(cps) : each[i].exc # ""}
         IN  IF bad # {} THEN each[CHOOSE i \in bad : \A j \in bad : i <= j]
             ELSE Ok(Concat([i \in 1..Len(cps) |-> each[i].val]))

\* bytes.decode("ascii").
AsciiDecode(bs) ==
    IF \E i \in 1..Len(bs) : bs[i] >= 128 THEN Raise("UnicodeDecodeError") ELSE Ok(bs)

\* _ensure_bytes(s, encoding): bytes pass through, str is encoded.
_ensure_bytes(s, encoding) ==
    IF s.kind = "bytes" THEN Ok(s.data) ELSE StrEncode(s.data, encoding)

\* ------------------------------------------------------------- numbers

RECURSIVE Dec(_)
\* str(n) for n >= 0, as ASCII codes.
Dec(n) == IF n < 10 THEN <<48 + n>> ELSE Dec(n \div 10) \o <<48 + (n % 10)>>

IsDigit(c) == c >= 48 /\ c <= 57

RECURSIVE DecValue(_, _)
DecValue(ds, acc) ==
    IF ds = <<>> THEN acc ELSE DecValue(Tail(ds), acc * 10 + (Head(ds) - 48))

\* int(text) for a non-empty run of digits; -1 when the text is not numeric.
ParseNat(ds) ==
    IF ds # <<>> /\ \A i \in 1..Len(ds) : IsDigit(ds[i]) THEN DecValue(ds, 0) ELSE -1

\* -------------------------------------------------------------- base64

\* The standard base64 alphabet: index -> ASCII code.
B64Char(i) ==
    IF i < 26 THEN 65 + i
    ELSE IF i < 52 THEN 97 + (i - 26)
    ELSE IF i < 62 THEN 48 + (i - 52)
    ELSE IF i = 62 THEN 43 ELSE 47

\* ASCII code -> index, -1 for a character outside the alphabet.
B64Index(c) ==
    IF c >= 65 /\ c <= 90 THEN c - 65
    ELSE IF c >= 97 /\ c <= 122 THEN c - 97 + 26
    ELSE IF c >= 48 /\ c <= 57 THEN c - 48 + 52
    ELSE IF c = 43 THEN 62
    ELSE IF c = 47 THEN 63 ELSE -1

RECURSIVE B64Encode(_)
\* Base64 without padding.
B64Encode(bs) ==
    IF Len(bs) = 0 THEN <<>>
    ELSE IF Len(bs) = 1 THEN
        <<B64Char(bs[1] \div 4), B64Char((bs[1] % 4) * 16)>>
    ELSE IF Len(bs) = 2 THEN
        <<B64Char(bs[1] \div 4), B64Char((bs[1] % 4) * 16 + (bs[2] \div 16)),
          B64Char((bs[2] % 16) * 4)>>
    ELSE
        <<B64Char(bs[1] \div 4), B64Char((bs[1] % 4) * 16 + (bs[2] \div 16)),
          B64Char((bs[2] % 16) * 4 + (bs[3] \div 64)), B64Char(bs[3] % 64)>>
        \o B64Encode(SubSeq(bs, 4, Len(bs)))

\* Whether a segment is unpadded base64 text.
B64Valid(cs) ==
    /\ Len(cs) % 4 # 1
    /\ \A i \in 1..Len(cs) : B64Index(cs[i]) >= 0

\* Number of bytes an unpadded base64 text of this length decodes to.
DecodedLen(length) ==
    LET mod == length % 4
    IN  IF mod = 3 THEN (length \div 4) * 3 + 2
        ELSE IF mod = 2 THEN (length \div 4) * 3 + 1
        ELSE (length \div 4) * 3

RECURSIVE B64Decode(_)
B64Decode(cs) ==
    LET x(i) == B64Index(cs[i])
    IN  IF Len(cs) < 2 THEN <<>>
        ELSE IF Len(cs) = 2 THEN <<x(1) * 4 + (x(2) \div 16)>>
        ELSE IF Len(cs) = 3 THEN
            <<x(1) * 4 + (x(2) \div 16), (x(2) % 16) * 16 + (x(3) \div 4)>>
        ELSE
            <<x(1) * 4 + (x(2) \div 16), (x(2) % 16) * 16 + (x(3) \div 4),
              (x(3) % 4) * 64 + x(4)>>
            \o B64Decode(SubSeq(cs, 5, Len(cs)))

\* ---------------------------------------------------------- Parameters

Type == {"I", "D", "ID"}

\* The variant token of the encoded form.
TypeToken(type) ==
    CASE type = "I" -> Asc(<<"i">>)
      [] type = "D" -> Asc(<<"d">>)
      [] type = "ID" -> Asc(<<"i", "d">>)

\* Every integer field is at least 1.
ParametersInRange(p) ==
    /\ p.salt_len >= 1
    /\ p.hash_len >= 1
    /\ p.time_cost >= 1
    /\ p.memory_cost >= 1
    /\ p.parallelism >= 1

\* Parameters(type=..., version=..., ...): the value object, or the refusal of
\* out-of-range fields.
Parameters(type, version, salt_len, hash_len, time_cost, memory_cost, parallelism) ==
    LET p == [type |-> type, version |-> version, salt_len |-> salt_len,
              hash_len |-> hash_len, time_cost |-> time_cost,
              memory_cost |-> memory_cost, parallelism |-> parallelism]
    IN  IF type \in Type /\ ParametersInRange(p) THEN Ok(p)
        ELSE Raise("InvalidParameterError")

\* The low-memory preset that seeds the defaults (lengths and memory scaled
\* down so that encoded hashes stay short).
RFC_9106_LOW_MEMORY ==
    [type |-> "ID", version |-> 19, salt_len |-> 2, hash_len |-> 2,
     time_cost |-> 3, memory_cost |-> 32, parallelism |-> 4]

DEFAULT_RANDOM_SALT_LENGTH == RFC_9106_LOW_MEMORY.salt_len
DEFAULT_HASH_LENGTH == RFC_9106_LOW_MEMORY.hash_len
DEFAULT_TIME_COST == RFC_9106_LOW_MEMORY.time_cost
DEFAULT_MEMORY_COST == RFC_9106_LOW_MEMORY.memory_cost

\* --------------------------------------------------------------- codec

\* $argon2<variant>$v=<version>$m=<m>,t=<t>,p=<p>$<salt>$<hash>
encode(p, salt, raw_hash) ==
    Asc(<<"$", "a", "r", "g", "o", "n", "2">>) \o TypeToken(p.type)
    \o Asc(<<"$", "v", "=">>) \o Dec(p.version)
    \o Asc(<<"$", "m", "=">>) \o Dec(p.memory_cost)
    \o Asc(<<",", "t", "=">>) \o Dec(p.time_cost)
    \o Asc(<<",", "p", "=">>) \o Dec(p.parallelism)
    \o Asc(<<"$">>) \o B64Encode(salt)
    \o Asc(<<"$">>) \o B64Encode(raw_hash)

RECURSIVE SplitFrom(_, _, _, _)
\* The segments of cs[start..] cut at each sep, scanning from index i.
SplitFrom(cs, sep, start, i) ==
    IF i > Len(cs) THEN <<SubSeq(cs, start, Len(cs))>>
    ELSE IF cs[i] = sep THEN <<SubSeq(cs, start, i - 1)>> \o SplitFrom(cs, sep, i + 1, i + 1)
    ELSE SplitFrom(cs, sep, start, i + 1)

\* text.split(sep) for a one-character separator.
Split(cs, sep) == SplitFrom(cs, sep, 1, 1)

\* The value of "<key>=<digits>", -1 when the field is not of that form.
KeyedNat(field, key) ==
    IF Len(field) > Len(key) + 1
       /\ SubSeq(field, 1, Len(key)) = key
       /\ field[Len(key) + 1] = Ord["="]
    THEN ParseNat(SubSeq(field, Len(key) + 2, Len(field)))
    ELSE -1

\* decode(text): the parameters, salt and raw hash of an encoded hash, parsed
\* strictly; InvalidHashError for anything that is not of the format.
decode(text) ==
    LET parts == Split(text, Ord["$"])
        variants == {t \in Type : parts[2] = Asc(<<"a", "r", "g", "o", "n", "2">>) \o TypeToken(t)}
        costs == Split(parts[4], Ord[","])
        version == KeyedNat(parts[3], Asc(<<"v">>))
        m == KeyedNat(costs[1], Asc(<<"m">>))
        t == KeyedNat(costs[2], Asc(<<"t">>))
        par == KeyedNat(costs[3], Asc(<<"p">>))
    IN  IF /\ Len(parts) = 6
           /\ parts[1] = <<>>
           /\ variants # {}
           /\ Len(costs) = 3
           /\ version >= 1 /\ m >= 1 /\ t >= 1 /\ par >= 1
           /\ B64Valid(parts[5]) /\ Len(parts[5]) >= 2
           /\ B64Valid(parts[6]) /\ Len(parts[6]) >= 2
        THEN Ok([params |-> [type |-> CHOOSE v \in variants : TRUE,
                             version |-> version,
                             salt_len |-> DecodedLen(Len(parts[5])),
                             hash_len |-> DecodedLen(Len(parts[6])),
                             time_cost |-> t, memory_cost |-> m, parallelism |-> par],
                 salt |-> B64Decode(parts[5]),
                 raw_hash |-> B64Decode(parts[6])])
        ELSE Raise("InvalidHashError")

\* extract_parameters(hash): the Parameters an encoded hash was made with.
extract_parameters(encoded) ==
    LET d == decode(encoded)
    IN  IF d.exc # "" THEN d ELSE Ok(d.val.params)

\* ----------------------------------------------------------- primitive

\* Lanes need at least this many kibibytes each.
MinMemoryPerLane == 8

RECURSIVE Mix(_, _)
Mix(bs, acc) == IF bs = <<>> THEN acc ELSE Mix(Tail(bs), (acc * 31 + Head(bs)) % 251)

RECURSIVE Numeral(_, _)
\* A byte string read as a base-256 numeral with a leading 1.
Numeral(bs, acc) == IF bs = <<>> THEN acc ELSE Numeral(Tail(bs), acc * 256 + Head(bs))

\* The raw Argon2 output: deterministic in all its inputs, and without
\* collisions between the secrets the model hashes.
Digest(secret, salt, time_cost, memory_cost, parallelism, hash_len, type, version) ==
    LET ctx == Mix(salt \o <<time_cost, memory_cost, parallelism, hash_len, version>>
                   \o TypeToken(type), 0)
        x == Numeral(secret, 1) + ctx
    IN  [i \in 1..hash_len |-> (x \div (256 ^ (i - 1))) % 256]

\* hash_secret(secret, salt, time_cost, memory_cost, parallelism, hash_len, type):
\* the encoded hash as ASCII bytes, or HashingError when Argon2 refuses the
\* parameters.
hash_secret(secret, salt, time_cost, memory_cost, parallelism, hash_len, type) ==
    IF \/ time_cost < 1 \/ parallelism < 1 \/ hash_len < 1
       \/ memory_cost < MinMemoryPerLane * parallelism
    THEN Raise("HashingError")
    ELSE Ok(encode([type |-> type, version |-> 19, salt_len |-> Len(salt),
                    hash_len |-> hash_len, time_cost |-> time_cost,
                    memory_cost |-> memory_cost, parallelism |-> parallelism],
                   salt,
                   Digest(secret, salt, time_cost, memory_cost, parallelism,
                          hash_len, type, 19)))

\* verify_secret(hash, secret, type): True; VerifyMismatchError for a
\* well-formed hash of another secret; InvalidHashError for a text that is not
\* an encoded hash of the variant asked for; VerificationError when Argon2
\* refuses the parameters the hash names.
verify_secret(encoded, secret, type) ==
    LET d == decode(encoded)
    IN  IF d.exc # "" \/ d.val.params.type # type THEN Raise("InvalidHashError")
        ELSE IF d.val.params.memory_cost < MinMemoryPerLane * d.val.params.parallelism
        THEN Raise("VerificationError")
        ELSE IF d.val.raw_hash =
                Digest(secret, d.val.salt, d.val.params.time_cost,
                       d.val.params.memory_cost, d.val.params.parallelism,
                       Len(d.val.raw_hash), type, d.val.params.version)
        THEN Ok(TRUE)
        ELSE Raise("VerifyMismatchError")

\* ------------------------------------------------------ PasswordHasher

\* Keyword arguments carry their Python type: a value is [ty, v].
Omitted == [ty |-> "omitted", v |-> 0]
OmittedName == [ty |-> "omitted", v |-> ""]
IntArg(n) == [ty |-> "int", v |-> n]
StrArg(n) == [ty |-> "str", v |-> n]

\* PasswordHasher() with every argument left to its default.
NoKwargs ==
    [time_cost |-> Omitted, memory_cost |-> Omitted, parallelism |-> Omitted,
     hash_len |-> Omitted, salt_len |-> Omitted, encoding |-> OmittedName,
     type |-> OmittedName]

\* The signature of __init__: each omitted argument takes its default, the
\* parallelism the one computed when the module was imported.
BindDefaults(kwargs, defaultParallelism) ==
    LET int(a, d) == IF a.ty = "omitted" THEN IntArg(d) ELSE a
    IN  [time_cost |-> int(kwargs.time_cost, DEFAULT_TIME_COST),
         memory_cost |-> int(kwargs.memory_cost, DEFAULT_MEMORY_COST),
         parallelism |-> int(kwargs.parallelism, defaultParallelism),
         hash_len |-> int(kwargs.hash_len, DEFAULT_HASH_LENGTH),
         salt_len |-> int(kwargs.salt_len, DEFAULT_RANDOM_SALT_LENGTH),
         encoding |-> IF kwargs.encoding.ty = "omitted" THEN StrArg("utf-8")
                      ELSE kwargs.encoding,
         type |-> IF kwargs.type.ty = "omitted" THEN [ty |-> "Type", v |-> "ID"]
                  ELSE kwargs.type]

\* _check_types(...): the arguments that are not of the expected type.
_check_types(a) ==
    {n \in {"time_cost", "memory_cost", "parallelism", "hash_len", "salt_len"} :
        a[n].ty # "int"}
    \cup (IF a.encoding.ty # "str" THEN {"encoding"} ELSE {})
    \cup (IF a.type.ty # "Type" THEN {"type"} ELSE {})

\* The platform rule: a constrained runtime allows one lane only.
PlatformForbids(isWasm, parallelism) == isWasm /\ parallelism # 1

\* PasswordHasher.__init__(**kwargs) under the probe's present answer: the new
\* instance, or the exception raised.
__init__(kwargs, isWasm, defaultParallelism) ==
    LET a == BindDefaults(kwargs, defaultParallelism)
        params == Parameters(a.type.v, 19, a.salt_len.v, a.hash_len.v,
                             a.time_cost.v, a.memory_cost.v, a.parallelism.v)
    IN  IF _check_types(a) # {} THEN Raise("TypeError")
        ELSE IF params.exc # "" THEN params
        ELSE IF PlatformForbids(isWasm, a.parallelism.v) THEN Raise("UnsupportedParamsError")
        ELSE Ok([_parameters |-> params.val, encoding |-> a.encoding.v])

\* PasswordHasher.from_parameters(params).
from_parameters(params, isWasm, defaultParallelism) ==
    IF PlatformForbids(isWasm, params.parallelism) THEN Raise("UnsupportedParamsError")
    ELSE LET ph == __init__(NoKwargs, isWasm, defaultParallelism)
         IN  IF ph.exc # "" THEN ph
             ELSE Ok([ph.val EXCEPT !._parameters = params])

\* What a method call did: the exception or the return value, the steps taken
\* in order, the calls made to the primitive and to os.urandom, and the
\* instance as the call left it.
Outcome(exc, retKind, retBool, retText, events, prim, urandom, self) ==
    [exc |-> exc, retKind |-> retKind, retBool |-> retBool, retText |-> retText,
     events |-> events, prim |-> prim, urandom |-> urandom, self |-> self]

Raised(exc, events, prim, urandom, self) ==
    Outcome(exc, "none", FALSE, <<>>, events, prim, urandom, self)

\* The salt argument: None, or the bytes given.
None == [given |-> FALSE, data |-> <<>>]
Given(bs) == [given |-> TRUE, data |-> bs]

\* `salt or os.urandom(n)`: whether the right operand is evaluated.
SaltIsFalsy(salt) == ~salt.given \/ salt.data = <<>>

\* PasswordHasher.hash(password, salt=salt); rnd is what os.urandom returns
\* if it is asked.
hash(self, password, salt, rnd) ==
    LET p == self._parameters
        secret == _ensure_bytes(password, self.encoding)
        useRandom == SaltIsFalsy(salt)
        theSalt == IF useRandom THEN rnd ELSE salt.data
        urandom == IF useRandom THEN <<p.salt_len>> ELSE <<>>
        call == [fn |-> "hash_secret", secret |-> secret.val, salt |-> theSalt,
                 time_cost |-> p.time_cost, memory_cost |-> p.memory_cost,
                 parallelism |-> p.parallelism, hash_len |-> p.hash_len,
                 type |-> p.type]
        h == hash_secret(secret.val, theSalt, p.time_cost, p.memory_cost,
                         p.parallelism, p.hash_len, p.type)
        text == AsciiDecode(h.val)
    IN  IF secret.exc # "" THEN
            Raised(secret.exc, <<"_ensure_bytes(password)">>, <<>>, <<>>, self)
        ELSE IF h.exc # "" THEN
            Raised(h.exc, <<"_ensure_bytes(password)", "hash_secret">>,
                   <<call>>, urandom, self)
        ELSE IF text.exc # "" THEN
            Raised(text.exc, <<"_ensure_bytes(password)", "hash_secret">>,
                   <<call>>, urandom, self)
        ELSE Outcome("", "str", FALSE, text.val,
                     <<"_ensure_bytes(password)", "hash_secret">>,
                     <<call>>, urandom, self)

\* The table with two variants exchanged.
_header_to_type_swapped ==
    (Asc(<<"$", "a", "r", "g", "o", "n", "2", "i", "$">>) :> "D") @@
    (Asc(<<"$", "a", "r", "g", "o", "n", "2", "d", "$">>) :> "I") @@
    (Asc(<<"$", "a", "r", "g", "o", "n", "2", "i", "d">>) :> "ID")

\* PasswordHasher._header_to_type
_header_to_type ==
    (Asc(<<"$", "a", "r", "g", "o", "n", "2", "i", "$">>) :> "I") @@
    (Asc(<<"$", "a", "r", "g", "o", "n", "2", "d", "$">>) :> "D") @@
    (Asc(<<"$", "a", "r", "g", "o", "n", "2", "i", "d">>) :> "ID")

\* hash[:9]
Prefix9(bs) == SubSeq(bs, 1, IF Len(bs) < 9 THEN Len(bs) ELSE 9)

\* A lookup that falls back on the hasher's own variant instead of failing.
HeaderLookupOrOwnType(self, header) ==
    IF header \in DOMAIN _header_to_type THEN Ok(_header_to_type[header])
    ELSE Ok(self._parameters.type)

\* A dispatch on the hasher's configured variant instead of the header.
HeaderLookupOwnType(self, header) ==
    IF header \in DOMAIN _header_to_type THEN Ok(self._parameters.type)
    ELSE Raise("InvalidHashError")

\* self._header_to_type[hash[:9]], a LookupError becoming InvalidHashError.
HeaderLookup(self, header) ==
    IF header \in DOMAIN _header_to_type THEN Ok(_header_to_type[header])
    ELSE Raise("InvalidHashError")

\* PasswordHasher.verify(hash, password)
verify(self, encoded, password) ==
    LET h == _ensure_bytes(encoded, "ascii")
        hash_type == HeaderLookup(self, Prefix9(h.val))
        secret == _ensure_bytes(password, self.encoding)
        call == [fn |-> "verify_secret", hash |-> h.val, secret |-> secret.val,
                 type |-> hash_type.val]
        v == verify_secret(h.val, secret.val, hash_type.val)
        steps == <<"_ensure_bytes(hash)", "_header_to_type",
                   "_ensure_bytes(password)", "verify_secret">>
    IN  IF h.exc # "" THEN Raised(h.exc, SubSeq(steps, 1, 1), <<>>, <<>>, self)
        ELSE IF hash_type.exc # "" THEN
            Raised(hash_type.exc, SubSeq(steps, 1, 2), <<>>, <<>>, self)
        ELSE IF secret.exc # "" THEN
            Raised(secret.exc, SubSeq(steps, 1, 3), <<>>, <<>>, self)
        ELSE IF v.exc # "" THEN Raised(v.exc, steps, <<call>>, <<>>, self)
        ELSE Outcome("", "bool", v.val, <<>>, steps, <<call>>, <<>>, self)

\* A rehash check that adopts the parameters it finds in the hash.
check_needs_rehash_adopting(self, encoded) ==
    LET text == IF encoded.kind = "bytes" THEN AsciiDecode(encoded.data) ELSE Ok(encoded.data)
        found == extract_parameters(text.val)
    IN  IF text.exc # "" THEN Raised(text.exc, <<"decode(ascii)">>, <<>>, <<>>, self)
        ELSE IF found.exc # "" THEN
            Raised(found.exc, <<"extract_parameters">>, <<>>, <<>>, self)
        ELSE Outcome("", "bool", self._parameters # found.val, <<>>,
                     <<"extract_parameters">>, <<>>, <<>>,
                     [self EXCEPT !._parameters = found.val])

\* PasswordHasher.check_needs_rehash(hash)
check_needs_rehash(self, encoded) ==
    LET text == IF encoded.kind = "bytes" THEN AsciiDecode(encoded.data) ELSE Ok(encoded.data)
        found == extract_parameters(text.val)
    IN  IF text.exc # "" THEN Raised(text.exc, <<"decode(ascii)">>, <<>>, <<>>, self)
        ELSE IF found.exc # "" THEN
            Raised(found.exc, <<"extract_parameters">>, <<>>, <<>>, self)
        ELSE Outcome("", "bool", self._parameters # found.val, <<>>,
                     <<"extract_parameters">>, <<>>, <<>>, self)

\* ------------------------------------------------------- state machine

VARIABLES
    DEFAULT_PARALLELISM, \* computed once, when the module was imported
    hashers,             \* the PasswordHasher instances constructed so far
    last                 \* the most recent call and what it did

vars == <<DEFAULT_PARALLELISM, hashers, last>>

\* The two hashers the application holds at most: the one that made a stored
\* hash and the one that verifies or checks it.
Roles == {"H1", "H2"}

\* Longest salt a caller supplies.
MaxSaltLen == 1

\* What os.urandom may return for n bytes.
Urandom(n) == {[i \in 1..n |-> b] : b \in {7, 200}}

Passwords == {Str(<<97>>), Bytes(<<97>>), Str(<<233>>)}

Salts == {None} \cup {Given([i \in 1..n |-> 4 + i]) : n \in 0..MaxSaltLen}

KwargsInputs ==
    { NoKwargs,
      [NoKwargs EXCEPT !.type = [ty |-> "Type", v |-> "I"]],
      [NoKwargs EXCEPT !.parallelism = IntArg(1)],
      [NoKwargs EXCEPT !.encoding = StrArg("latin-1")],
      [NoKwargs EXCEPT !.time_cost = StrArg(3)],
      [NoKwargs EXCEPT !.encoding = [ty |-> "bytes", v |-> "utf-8"]],
      [NoKwargs EXCEPT !.type = StrArg("ID")],
      [NoKwargs EXCEPT !.hash_len = IntArg(0)],
      [NoKwargs EXCEPT !.memory_cost = IntArg(-1)] }

\* Parameters objects a caller may hold: the preset and variations of it.
ParametersInputs ==
    { RFC_9106_LOW_MEMORY,
      [RFC_9106_LOW_MEMORY EXCEPT !.parallelism = 1],
      [RFC_9106_LOW_MEMORY EXCEPT !.type = "D", !.parallelism = 1, !.time_cost = 2] }

\* A well-formed encoded hash of the preset, to derive malformed ones from.
Sample == encode(RFC_9106_LOW_MEMORY, <<5, 6>>, <<1, 2>>)

\* Encoded-hash arguments that no hasher produced.
ForeignHashes ==
    { Str(Asc(<<"$", "b", "c", "r", "y", "p", "t", "$">>) \o SubSeq(Sample, 11, Len(Sample))),
      Str(<<>>),
      Bytes(SubSeq(Sample, 1, 8)),
      Str(SubSeq(Sample, 1, 14)),
      Str(SubSeq(Sample, 1, 28) \o SubSeq(Sample, 33, Len(Sample))),
      Str(SubSeq(Sample, 1, 9) \o Asc(<<"X">>) \o SubSeq(Sample, 10, Len(Sample))),
      Str(SubSeq(Sample, 1, Len(Sample) - 1) \o <<233>>),
      Bytes(SubSeq(Sample, 1, Len(Sample) - 1) \o <<233>>),
      Bytes(Sample) }

NoHasher == [_parameters |-> RFC_9106_LOW_MEMORY, encoding |-> ""]

\* Where an encoded hash came from: the hasher that made it and from what.
NoSrc == [made |-> FALSE, by |-> NoHasher, password |-> Str(<<>>),
          secret |-> <<>>, salt |-> None]

NoCall ==
    [op |-> "none", self |-> NoHasher, wasm |-> FALSE, kwargs |-> NoKwargs,
     params |-> RFC_9106_LOW_MEMORY, encoded |-> Str(<<>>), password |-> Str(<<>>),
     salt |-> None, src |-> NoSrc, made |-> NoHasher,
     exc |-> "", retKind |-> "none", retBool |-> FALSE, retText |-> <<>>,
     events |-> <<>>, prim |-> <<>>, urandom |-> <<>>]

\* The call record of a method call with this outcome.
Done(call, out) ==
    [call EXCEPT !.exc = out.exc, !.retKind = out.retKind, !.retBool = out.retBool,
                 !.retText = out.retText, !.events = out.events, !.prim = out.prim,
                 !.urandom = out.urandom]

\* The encoded hash the caller has in hand from the previous call, with its
\* origin: the one hash() just returned, or the one just verified or checked.
InHand ==
    IF last.op = "hash" /\ last.exc = "" THEN
        {[encoded |-> Str(last.retText),
          src |-> [made |-> TRUE, by |-> last.self, password |-> last.password,
                   secret |-> last.prim[1].secret, salt |-> last.salt]]}
    ELSE IF last.src.made THEN {[encoded |-> last.encoded, src |-> last.src]}
    ELSE {}

Foreign == {[encoded |-> f, src |-> NoSrc] : f \in ForeignHashes}

HashInputs == InHand \cup Foreign

\* hash() calls: every password with a generated salt, one with each supplied.
HashCalls ==
    (Passwords \X {None}) \cup ({Bytes(<<97>>)} \X (Salts \ {None}))

\* verify() calls: every password against the hash in hand, one against each
\* foreign text.
VerifyCalls == (InHand \X Passwords) \cup (Foreign \X {Str(<<97>>)})

\* is_wasm(): the platform the process runs on, or the one a test injects.
is_wasm == BOOLEAN

Init ==
    /\ \E w \in is_wasm :
          DEFAULT_PARALLELISM = (IF w THEN 1 ELSE RFC_9106_LOW_MEMORY.parallelism)
    /\ hashers = {}
    /\ last = NoCall

\* The instances after a call on `self` that left it as `after`.
Rebind(self, after) == (hashers \ {self}) \cup {after}

\* PasswordHasher(**kwargs)
Construct(kwargs, wasm) ==
    /\ Cardinality(hashers) < Cardinality(Roles)
    /\ \E r \in {__init__(kwargs, wasm, DEFAULT_PARALLELISM)} :
           /\ hashers' = IF r.exc = "" THEN hashers \cup {r.val} ELSE hashers
           /\ last' = [NoCall EXCEPT !.op = "__init__", !.wasm = wasm,
                                     !.kwargs = kwargs, !.exc = r.exc,
                                     !.made = IF r.exc = "" THEN r.val ELSE NoHasher]
    /\ UNCHANGED DEFAULT_PARALLELISM

\* PasswordHasher.from_parameters(params)
FromParameters(params, wasm) ==
    /\ Cardinality(hashers) < Cardinality(Roles)
    /\ \E r \in {from_parameters(params, wasm, DEFAULT_PARALLELISM)} :
           /\ hashers' = IF r.exc = "" THEN hashers \cup {r.val} ELSE hashers
           /\ last' = [NoCall EXCEPT !.op = "from_parameters", !.wasm = wasm,
                                     !.params = params, !.exc = r.exc,
                                     !.made = IF r.exc = "" THEN r.val ELSE NoHasher]
    /\ UNCHANGED DEFAULT_PARALLELISM

\* self.hash(password, salt=salt)
Hash(self, password, salt, rnd) ==
    \E out \in {hash(self, password, salt, rnd)} :
        /\ hashers' = Rebind(self, out.self)
        /\ last' = Done([NoCall EXCEPT !.op = "hash", !.self = self,
                                       !.password = password, !.salt = salt], out)
        /\ UNCHANGED DEFAULT_PARALLELISM

\* self.verify(encoded, password)
Verify(self, in, password) ==
    \E out \in {verify(self, in.encoded, password)} :
        /\ hashers' = Rebind(self, out.self)
        /\ last' = Done([NoCall EXCEPT !.op = "verify", !.self = self,
                                       !.encoded = in.encoded, !.src = in.src,
                                       !.password = password], out)
        /\ UNCHANGED DEFAULT_PARALLELISM

\* self.check_needs_rehash(encoded)
CheckNeedsRehash(self, in) ==
    \E out \in {check_needs_rehash(self, in.encoded)} :
        /\ hashers' = Rebind(self, out.self)
        /\ last' = Done([NoCall EXCEPT !.op = "check_needs_rehash", !.self = self,
                                       !.encoded = in.encoded,
                                       !.src = in.src], out)
        /\ UNCHANGED DEFAULT_PARALLELISM

Next ==
    \/ \E kwargs \in KwargsInputs, wasm \in is_wasm : Construct(kwargs, wasm)
    \/ \E params \in ParametersInputs, wasm \in is_wasm : FromParameters(params, wasm)
    \/ \E self \in hashers, c \in HashCalls :
          \E rnd \in (IF SaltIsFalsy(c[2]) THEN Urandom(self._parameters.salt_len)
                      ELSE {<<>>}) :
              Hash(self, c[1], c[2], rnd)
    \/ \E self \in hashers, c \in VerifyCalls : Verify(self, c[1], c[2])
    \/ \E self \in hashers, in \in HashInputs : CheckNeedsRehash(self, in)

Spec == Init /\ [][Next]_vars

\* -------------------------------------------------------------- claims

\* The three dispatch tokens, spelt out.
TokenI == Asc(<<"$", "a", "r", "g", "o", "n", "2", "i", "$">>)
TokenD == Asc(<<"$", "a", "r", "g", "o", "n", "2", "d", "$">>)
TokenID9 == Asc(<<"$", "a", "r", "g", "o", "n", "2", "i", "d">>)
TokenIDFull == Asc(<<"$", "a", "r", "g", "o", "n", "2", "i", "d", "$">>)

StartsWith(bs, tok) == Len(bs) >= Len(tok) /\ SubSeq(bs, 1, Len(tok)) = tok

\* Index of the first occurrence of e in a sequence, 0 when absent.
Pos(seq, e) ==
    IF \E i \in 1..Len(seq) : seq[i] = e
    THEN CHOOSE i \in 1..Len(seq) : seq[i] = e /\ \A j \in 1..(i - 1) : seq[j] # e
    ELSE 0

VerifiedStored == last.op = "verify" /\ last.src.made

\* C1 (as stated): for every pair of hashers H1, H2 and password p,
\* H2.verify(H1.hash(p), p) returns True, and for every password q different
\* from p (of other characters, not merely of the other kind) it raises
\* VerifyMismatchError; verify never completes with a result other than True.
C1_AsStated ==
    /\ VerifiedStored /\ last.password = last.src.password
          => last.exc = "" /\ last.retKind = "bool" /\ last.retBool
    /\ VerifiedStored /\ last.password.data # last.src.password.data
          => last.exc = "VerifyMismatchError"
    /\ last.op = "verify" /\ last.exc = "" => last.retKind = "bool" /\ last.retBool

\* C1 (amended): H2.verify(H1.hash(p), q) returns True whenever q, coerced to
\* bytes with H2's encoding, is the byte string H1 hashed, whatever the variant
\* and parameters of H2; it raises VerifyMismatchError whenever q coerces to
\* other bytes; verify never completes with a result other than True.
C1_VerifyByHeader ==
    /\ VerifiedStored =>
          LET q == _ensure_bytes(last.password, last.self.encoding)
          IN  /\ q.exc = "" /\ q.val = last.src.secret
                    => last.exc = "" /\ last.retKind = "bool" /\ last.retBool
              /\ q.exc = "" /\ q.val # last.src.secret
                    => last.exc = "VerifyMismatchError"
    /\ last.op = "verify" /\ last.exc = "" => last.retKind = "bool" /\ last.retBool

\* C1 witness: a hasher of one variant has verified, with True, a hash made by
\* a hasher of another variant.
C1_Witness ==
    /\ VerifiedStored
    /\ last.self._parameters.type # last.src.by._parameters.type
    /\ last.exc = "" /\ last.retBool

\* C2: in verify, whenever the first 9 bytes of the hash (as bytes, after the
\* ASCII coercion of line 259) are none of $argon2i$, $argon2d$, $argon2id
\* -- shorter and empty hashes included -- the call ends with InvalidHashError
\* and verify_secret is not invoked; and in every call the header lookup comes
\* before the coercion of the password and before the primitive.
C2_HeaderCheckFirst ==
    last.op = "verify" =>
        LET h == _ensure_bytes(last.encoded, "ascii")
            lookup == Pos(last.events, "_header_to_type")
            coerce == Pos(last.events, "_ensure_bytes(password)")
            prim == Pos(last.events, "verify_secret")
        IN  /\ h.exc = "" /\ Prefix9(h.val) \notin {TokenI, TokenD, TokenID9}
                  => /\ last.exc = "InvalidHashError"
                     /\ last.prim = <<>>
                     /\ coerce = 0 /\ prim = 0
            /\ coerce # 0 => lookup # 0 /\ lookup < coerce
            /\ prim # 0 => lookup # 0 /\ lookup < prim
            /\ (prim # 0) = (last.prim # <<>>)

\* C2 witness: verify was given a hash shorter than 9 bytes that is not empty.
C2_Witness ==
    /\ last.op = "verify"
    /\ last.encoded.kind = "bytes"
    /\ Len(last.encoded.data) \in 1..8
    /\ last.exc = "InvalidHashError"

\* The malformed inputs the claim lists: a foreign scheme, truncated strings,
\* a string without its salt segment, text and bytes with a non-ASCII
\* character.
Malformed == ForeignHashes \ {Bytes(Sample), Str(<<>>),
        Str(SubSeq(Sample, 1, 9) \o Asc(<<"X">>) \o SubSeq(Sample, 10, Len(Sample)))}

\* C3: for every malformed hash input, verify and check_needs_rehash end with
\* InvalidHashError and with no other exception.
C3_OnlyInvalidHashError ==
    last.op \in {"verify", "check_needs_rehash"} /\ last.encoded \in Malformed
        => last.exc = "InvalidHashError"

\* Two Parameters that differ in exactly one field.
DifferInOneField(p, q) ==
    Cardinality({f \in DOMAIN p : p[f] # q[f]}) = 1

CheckedStored == last.op = "check_needs_rehash" /\ last.src.made

\* C4: check_needs_rehash(h) returns False for every h made by the same hasher,
\* with a generated or a supplied salt of any length, and True when h was made
\* by a hasher differing in one field; it never invokes the primitive.
C4_RehashDecision ==
    /\ CheckedStored /\ last.src.by = last.self
          => last.exc = "" /\ last.retBool = FALSE
    /\ CheckedStored /\ last.src.by.encoding = last.self.encoding
       /\ DifferInOneField(last.src.by._parameters, last.self._parameters)
          => last.exc = "" /\ last.retBool = TRUE
    /\ last.op = "check_needs_rehash" => last.prim = <<>>

\* The keyword arguments that pass the type check.
WellTyped(kwargs) ==
    /\ \A n \in {"time_cost", "memory_cost", "parallelism", "hash_len", "salt_len"} :
          kwargs[n].ty \in {"int", "omitted"}
    /\ kwargs.encoding.ty \in {"str", "omitted"}
    /\ kwargs.type.ty \in {"Type", "omitted"}

\* The keyword arguments whose given costs and lengths are all at least 1.
InRange(kwargs) ==
    \A n \in {"time_cost", "memory_cost", "parallelism", "hash_len", "salt_len"} :
        kwargs[n].ty = "int" => kwargs[n].v >= 1

\* The parallelism a construction runs with: the one given, else the default.
ParallelismInEffect(kwargs) ==
    IF kwargs.parallelism.ty = "omitted" THEN DEFAULT_PARALLELISM
    ELSE kwargs.parallelism.v

\* C5: under a constrained runtime PasswordHasher(...) raises
\* UnsupportedParamsError exactly when the parallelism in effect is not 1, under
\* a normal runtime never; and PasswordHasher() with all defaults never raises
\* it, whatever the probe answered when the defaults were computed.
C5_PlatformRule ==
    last.op = "__init__" =>
        /\ WellTyped(last.kwargs) /\ InRange(last.kwargs) =>
              ((last.exc = "UnsupportedParamsError")
                  = (last.wasm /\ ParallelismInEffect(last.kwargs) # 1))
        /\ ~last.wasm => last.exc # "UnsupportedParamsError"
        /\ last.kwargs = NoKwargs => last.exc # "UnsupportedParamsError"

\* C6: from_parameters(P) raises UnsupportedParamsError when the runtime is
\* constrained and P.parallelism is not 1, and otherwise returns a new hasher
\* with exactly the fields of P, whatever the constructor's defaults are.
C6_FromParameters ==
    last.op = "from_parameters" =>
        IF last.wasm /\ last.params.parallelism # 1
        THEN last.exc = "UnsupportedParamsError"
        ELSE last.exc = "" /\ last.made._parameters = last.params
             /\ last.made \in hashers

\* C7: hash consults os.urandom if and only if salt is None, and then for
\* salt_len bytes; a supplied salt of any length, the empty one included, goes
\* to the primitive unchanged; the primitive gets the hasher's own costs,
\* lengths and variant.
C7_SaltAndEntropy ==
    last.op = "hash" /\ last.prim # <<>> =>
        LET call == last.prim[1]
            p == last.self._parameters
        IN  /\ (last.urandom # <<>>) = ~last.salt.given
            /\ ~last.salt.given => last.urandom = <<p.salt_len>>
            /\ last.salt.given => call.salt = last.salt.data
            /\ call.time_cost = p.time_cost /\ call.memory_cost = p.memory_cost
            /\ call.parallelism = p.parallelism /\ call.hash_len = p.hash_len
            /\ call.type = p.type

\* C8: a wrong-typed argument fails construction with InvalidParameterError, a
\* cost or length below 1 is rejected, no hasher holds such a value and no hash
\* call passes one to the primitive.
C8_ValidatedConstruction ==
    /\ last.op = "__init__" /\ ~WellTyped(last.kwargs)
          => last.exc = "InvalidParameterError"
    /\ last.op = "__init__" /\ WellTyped(last.kwargs) /\ ~InRange(last.kwargs)
          => last.exc # ""
    /\ \A h \in hashers : ParametersInRange(h._parameters)
    /\ last.op = "hash" /\ last.prim # <<>> =>
          /\ last.prim[1].time_cost >= 1 /\ last.prim[1].memory_cost >= 1
          /\ last.prim[1].parallelism >= 1 /\ last.prim[1].hash_len >= 1

PrimitiveInvoked == last.op = "verify" /\ last.prim # <<>>

\* C9 (as stated): every hash on which verify invokes the primitive starts
\* with a complete token $argon2i$, $argon2d$ or $argon2id$, and the variant
\* forwarded is the one that token names.
C9_AsStated ==
    PrimitiveInvoked =>
        LET call == last.prim[1]
        IN  \/ StartsWith(call.hash, TokenI) /\ call.type = "I"
            \/ StartsWith(call.hash, TokenD) /\ call.type = "D"
            \/ StartsWith(call.hash, TokenIDFull) /\ call.type = "ID"

\* C9 (amended): every hash on which verify invokes the primitive has as its
\* first nine bytes $argon2i$, $argon2d$ or $argon2id, and the variant
\* forwarded is I, D or ID accordingly; the tenth byte is not looked at.
C9_DispatchOnNineBytes ==
    PrimitiveInvoked =>
        LET call == last.prim[1]
        IN  \/ Prefix9(call.hash) = TokenI /\ call.type = "I"
            \/ Prefix9(call.hash) = TokenD /\ call.type = "D"
            \/ Prefix9(call.hash) = TokenID9 /\ call.type = "ID"

\* C9 witness: verify has handed the primitive, as ID, a hash whose tenth byte
\* is not "$".
C9_Witness ==
    /\ PrimitiveInvoked
    /\ last.prim[1].type = "ID"
    /\ last.prim[1].hash[10] # Ord["$"]

====
